---- MODULE Spec2Model ----
(***************************************************************************)
(* Model of currency_tracker.py: the CurrencyTracker client (two HTTP GET   *)
(* operations and the in-memory history) and the CurrencyTrackerGUI event  *)
(* handlers that drive it (refresh, auto-refresh timer, conversion).       *)
(*                                                                         *)
(* Python values are encoded so that every comparison is between values of *)
(* one shape:                                                              *)
(*   None is <<>> and a present value x is <<x>>;                           *)
(*   a JSON scalar is [t |-> "num" | "str" | "null", v |-> Int], a number  *)
(*   being held in ten-thousandths (0.92 is 9200);                         *)
(*   a JSON "rates" member is [t |-> "map" | "null", m |-> function].      *)
(***************************************************************************)
EXTENDS Integers, Sequences, FiniteSets, TLC

VARIABLES
    history,               \* CurrencyTracker.history
    current_rates,         \* CurrencyTrackerGUI.current_rates
    auto_refresh,          \* CurrencyTrackerGUI.auto_refresh
    auto_refresh_var,      \* the checkbutton's BooleanVar
    refresh_job,           \* CurrencyTrackerGUI.refresh_job (None or an after-id)
    refresh_btn,           \* state of the refresh button
    export_btn,            \* state of the export button
    status_label,          \* text of the status label
    update_time_label,     \* text of the last-updated label
    rates_tree,            \* rows of the rates table
    convert_result_label,  \* text of the conversion result label
    timers,                \* pending after(60000, schedule_refresh) timers
    startup_timer,         \* the after(100, refresh_rates) timer of main() is pending
    stack,                 \* activations of handlers, innermost last
    clock,                 \* number of get_exchange_rates calls started (local time)
    next_after,            \* next after-id Tk hands out
    returned,              \* log: snapshots returned by get_exchange_rates, in call order
    conv_log,              \* log: the last convert_currency activation
    call,                  \* client harness: the pending call and its inputs
    result                 \* client harness: what the call returned

vars == <<history, current_rates, auto_refresh, auto_refresh_var, refresh_job,
          refresh_btn, export_btn, status_label, update_time_label, rates_tree,
          convert_result_label, timers, startup_timer, stack, clock, next_after,
          returned, conv_log, call, result>>

guiVars == <<history, current_rates, auto_refresh, auto_refresh_var, refresh_job,
             refresh_btn, export_btn, status_label, update_time_label, rates_tree,
             convert_result_label, timers, startup_timer, stack, clock, next_after,
             returned, conv_log>>

----------------------------------------------------------------------------
(* Bounds *)

MaxFetches == 3

----------------------------------------------------------------------------
(* Values *)

None == <<>>
Some(x) == <<x>>

NumV(n) == [t |-> "num", v |-> n]
StrV == [t |-> "str", v |-> 0]
NullV == [t |-> "null", v |-> 0]

EmptyMap == [c \in {} |-> NullV]
MapV(m) == [t |-> "map", m |-> m]
NullRates == [t |-> "null", m |-> EmptyMap]

\* the values of the base and from comboboxes that the model draws from
Bases == {"USD", "EUR"}

\* the values of the to combobox that the model draws from
Targets == {"EUR", "GBP"}

display_currencies ==
    <<"EUR", "GBP", "JPY", "CHF", "CAD", "AUD", "CNY", "TRY", "INR", "BRL", "MXN", "ZAR">>

currency_names ==
    [c \in {display_currencies[i] : i \in 1..Len(display_currencies)} |->
        CASE c = "EUR" -> "Euro (EUR)"
          [] c = "GBP" -> "British Pound (GBP)"
          [] c = "JPY" -> "Japanese Yen (JPY)"
          [] c = "CHF" -> "Swiss Franc (CHF)"
          [] c = "CAD" -> "Canadian Dollar (CAD)"
          [] c = "AUD" -> "Australian Dollar (AUD)"
          [] c = "CNY" -> "Chinese Yuan (CNY)"
          [] c = "TRY" -> "Turkish Lira (TRY)"
          [] c = "INR" -> "Indian Rupee (INR)"
          [] c = "BRL" -> "Brazilian Real (BRL)"
          [] c = "MXN" -> "Mexican Peso (MXN)"
          [] OTHER -> "South African Rand (ZAR)"]

----------------------------------------------------------------------------
(* What the provider and the transport can answer to one GET.               *)
(* kind: "dns", "refused", "timeout" (requests.get raises), "http_error"    *)
(* (a non-2xx status, raise_for_status raises) or "ok" (2xx with a body).   *)
(* body.t: "notjson", "list" (JSON that is not an object) or "obj" with the *)
(* set body.has of members present.                                         *)

NoBody == [t |-> "none", has |-> {}, base |-> "", date |-> "", rates |-> NullRates]
Obj(has, base, rates) ==
    [t |-> "obj", has |-> has, base |-> base, date |-> "2024-01-15", rates |-> rates]

Failure(kind) == [kind |-> kind, body |-> NoBody]
Ok(body) == [kind |-> "ok", body |-> body]

TransportFailures == {Failure("dns"), Failure("refused"), Failure("timeout"),
                      Failure("http_error")}

AllKeys == {"amount", "base", "date", "rates"}

\* rates mappings a provider can send for the latest-rates request
GoodRates == MapV([c \in {"EUR", "JPY"} |-> IF c = "EUR" THEN NumV(9200) ELSE NumV(1502500)])
ZeroNegRates == MapV([c \in {"EUR", "GBP"} |-> IF c = "EUR" THEN NumV(0) ELSE NumV(-15000)])
TextRates == MapV([c \in {"EUR", "GBP"} |-> IF c = "EUR" THEN NumV(9200) ELSE StrV])

RatesBodies(base) ==
    { Obj(AllKeys, base, r) : r \in {GoodRates, ZeroNegRates, TextRates, NullRates} }

MalformedBodies ==
    { [NoBody EXCEPT !.t = "notjson"],
      [NoBody EXCEPT !.t = "list"],
      [NoBody EXCEPT !.t = "obj", !.has = {"unexpected"}],
      Obj({"base", "date"}, "USD", NullRates) }

RatesResponses(base) ==
    TransportFailures \cup {Ok(b) : b \in MalformedBodies \cup RatesBodies(base)}

\* the answers the GUI model draws a refresh from: a transport failure, a
\* body of the wrong shape, rates that display and rates that do not
RefreshResponses(base) ==
    {Failure("timeout"), Ok([NoBody EXCEPT !.t = "obj", !.has = {"unexpected"}])}
    \cup {Ok(Obj(AllKeys, base, r)) : r \in {GoodRates, ZeroNegRates, TextRates}}

\* answers to the conversion request ?amount=..&from=..&to=..
ConversionBodies(from_currency, to_currency) ==
    { Obj(AllKeys, from_currency, MapV([c \in {to_currency} |-> v])) :
          v \in {NumV(920000), NumV(1234567), StrV, NullV} }
    \cup { Obj(AllKeys, from_currency, MapV([c \in {"JPY"} |-> NumV(1502500)])),
           Obj(AllKeys, from_currency, NullRates) }

ConversionResponses(from_currency, to_currency) ==
    TransportFailures
    \cup {Ok(b) : b \in MalformedBodies \cup ConversionBodies(from_currency, to_currency)}

----------------------------------------------------------------------------
(* Exceptions.  An outcome of a try body is either a value or an exception  *)
(* of a class; IsRequestException gives the classes that derive from        *)
(* requests.exceptions.RequestException.  The class response.json() raises  *)
(* for a body that is not JSON depends on the installed requests: a         *)
(* RequestException subclass (requests.exceptions.JSONDecodeError) or a     *)
(* plain ValueError, so it is an input of the call (json_exc).              *)

JsonExcClasses == {"requests.JSONDecodeError", "ValueError"}

Raise(cls, msg) == [raised |-> TRUE, cls |-> cls, msg |-> msg]

IsRequestException(cls) ==
    cls \in {"ConnectionError", "Timeout", "HTTPError", "requests.JSONDecodeError"}

\* requests.get(...); response.raise_for_status()
http_get(resp) ==
    CASE resp.kind \in {"dns", "refused"} -> Raise("ConnectionError", resp.kind)
      [] resp.kind = "timeout" -> Raise("Timeout", "timed out")
      [] resp.kind = "http_error" -> Raise("HTTPError", "status")
      [] OTHER -> [raised |-> FALSE, cls |-> "", msg |-> ""]

\* response.json(), then subscripting the decoded value with key
json_member(body, key, json_exc) ==
    CASE body.t = "notjson" -> Raise(json_exc, "Expecting value")
      [] body.t = "list" -> Raise("TypeError", "list indices")
      [] key \notin body.has -> Raise("KeyError", key)
      [] OTHER -> [raised |-> FALSE, cls |-> "", msg |-> ""]

FirstRaised(outs) ==
    IF \E i \in 1..Len(outs) : outs[i].raised
    THEN outs[CHOOSE i \in 1..Len(outs) :
                 outs[i].raised /\ \A j \in 1..(i - 1) : ~outs[j].raised]
    ELSE [raised |-> FALSE, cls |-> "", msg |-> ""]

Error(prefix, msg) == [prefix |-> prefix, msg |-> msg]

\* CurrencyTracker.get_exchange_rates: <<rates, error>>
get_exchange_rates(base, resp, now, json_exc) ==
    LET out == FirstRaised(<<http_get(resp),
                             json_member(resp.body, "base", json_exc),
                             json_member(resp.body, "date", json_exc),
                             json_member(resp.body, "rates", json_exc)>>)
    IN  IF ~out.raised
        THEN <<Some([base |-> resp.body.base, date |-> resp.body.date,
                     timestamp |-> now, rates |-> resp.body.rates]), None>>
        ELSE IF IsRequestException(out.cls)
             THEN <<None, Some(Error("Network error: ", out.msg))>>
             ELSE <<None, Some(Error("Error: ", out.msg))>>

\* data['rates'][to_currency]
rates_member(body, to_currency) ==
    CASE body.rates.t # "map" -> Raise("TypeError", "not subscriptable")
      [] to_currency \notin DOMAIN body.rates.m -> Raise("KeyError", to_currency)
      [] OTHER -> [raised |-> FALSE, cls |-> "", msg |-> ""]

get_conversion_split(amount, from_currency, to_currency, resp, json_exc) ==
    LET out == FirstRaised(<<http_get(resp),
                             json_member(resp.body, "rates", json_exc),
                             rates_member(resp.body, to_currency)>>)
    IN  IF ~out.raised
        THEN LET v == resp.body.rates.m[to_currency]
             IN  <<IF v.t = "null" THEN None ELSE Some(v), None>>
        ELSE IF IsRequestException(out.cls)
             THEN <<None, Some(Error("Network error: ", out.msg))>>
             ELSE <<None, Some(Error("Conversion error: ", out.msg))>>

\* CurrencyTracker.get_conversion: <<converted_amount, error>>; a JSON null
\* under the key comes back as Python None
get_conversion(amount, from_currency, to_currency, resp, json_exc) ==
    LET out == FirstRaised(<<http_get(resp),
                             json_member(resp.body, "rates", json_exc),
                             rates_member(resp.body, to_currency)>>)
    IN  IF ~out.raised
        THEN LET v == resp.body.rates.m[to_currency]
             IN  <<IF v.t = "null" THEN None ELSE Some(v), None>>
        ELSE <<None, Some(Error("Conversion error: ", out.msg))>>

save_to_history_front(h, rates_data) == <<rates_data>> \o h

\* CurrencyTracker.save_to_history
save_to_history(h, rates_data) == Append(h, rates_data)

----------------------------------------------------------------------------
(* Text conversions of the GUI *)

Digits == {"0", "1", "2", "5", "7"}

DigitVal(ch) ==
    CASE ch = "0" -> 0 [] ch = "1" -> 1 [] ch = "2" -> 2 [] ch = "5" -> 5 [] OTHER -> 7

RECURSIVE Strip(_)
Strip(s) ==
    IF s = <<>> THEN s
    ELSE IF Head(s) = " " THEN Strip(Tail(s))
    ELSE IF s[Len(s)] = " " THEN Strip(SubSeq(s, 1, Len(s) - 1))
    ELSE s

RECURSIVE IntVal(_)
IntVal(s) == IF s = <<>> THEN 0 ELSE IntVal(SubSeq(s, 1, Len(s) - 1)) * 10 + DigitVal(s[Len(s)])

\* the fraction digits as ten-thousandths (digits past the fourth are dropped)
FracVal(s) ==
    LET d(i) == IF i <= Len(s) THEN DigitVal(s[i]) ELSE 0
    IN  d(1) * 1000 + d(2) * 100 + d(3) * 10 + d(4)

\* float(text) for decimal literals: surrounding blanks, an optional sign,
\* digits with at most one point and at least one digit; anything else
\* raises ValueError
float_(text) ==
    LET s == Strip(text)
        neg == s # <<>> /\ Head(s) = "-"
        u == IF s # <<>> /\ Head(s) \in {"-", "+"} THEN Tail(s) ELSE s
        dots == {i \in 1..Len(u) : u[i] = "."}
        p == IF dots = {} THEN Len(u) + 1 ELSE CHOOSE i \in dots : TRUE
        ip == SubSeq(u, 1, p - 1)
        fp == SubSeq(u, p + 1, Len(u))
        wellformed == /\ Cardinality(dots) <= 1
                      /\ \A i \in 1..Len(u) : u[i] \in Digits \cup {"."}
                      /\ Len(ip) + Len(fp) >= 1
        mag == IntVal(ip) * 10000 + FracVal(fp)
    IN  IF wellformed
        THEN [raised |-> FALSE, cls |-> "", msg |-> "", val |-> NumV(IF neg THEN 0 - mag ELSE mag)]
        ELSE [raised |-> TRUE, cls |-> "ValueError", msg |-> "could not convert", val |-> NullV]

\* the texts of the amount entry that the model draws from
AmountTexts ==
    { <<"1", "0", "0">>, <<" ", "7", " ">>, <<"-", "2", ".", "5">>,
      <<>>, <<"1", ".", "2", ".", "5">>, <<"1", "0", "a">> }

\* f"{x:,.2f}" and f"{x:.4f}" of a number held in ten-thousandths
Fmt2(n) == [fmt |-> ",.2f", n |-> IF n >= 0 THEN (n + 50) \div 100 ELSE 0 - ((50 - n) \div 100)]
Fmt4(n) == [fmt |-> ".4f", n |-> n]

\* rate > 100 and the two formats of update_rates_display; comparing a str or
\* None with an int raises TypeError
rate_str(rate) ==
    IF rate.t # "num"
    THEN [raised |-> TRUE, str |-> Fmt4(0)]
    ELSE [raised |-> FALSE, str |-> IF rate.v > 100 * 10000 THEN Fmt2(rate.v) ELSE Fmt4(rate.v)]

\* the insertion loop of update_rates_display from display_currencies[i] on;
\* rows are the rows inserted so far.  "currency in rates" raises TypeError
\* when rates is None.
RECURSIVE display_from(_, _, _)
display_from(i, rates, rows) ==
    IF i > Len(display_currencies) THEN [rows |-> rows, raised |-> FALSE]
    ELSE IF rates.t # "map" THEN [rows |-> rows, raised |-> TRUE]
    ELSE LET currency == display_currencies[i]
         IN  IF currency \notin DOMAIN rates.m
             THEN display_from(i + 1, rates, rows)
             ELSE LET rs == rate_str(rates.m[currency])
                  IN  IF rs.raised THEN [rows |-> rows, raised |-> TRUE]
                      ELSE display_from(i + 1, rates,
                               Append(rows, <<currency_names[currency], rs.str, "N/A">>))

\* CurrencyTrackerGUI.update_rates_display: the tree is cleared, then filled
update_rates_display(rates_data) == display_from(1, rates_data.rates, <<>>)

----------------------------------------------------------------------------
(* The Tk event loop.  Handlers run to completion on the one GUI thread.    *)
(* A handler that shows a messagebox stays on the stack while the dialog is *)
(* open: the dialog is modal (clicks on the main window are not delivered)  *)
(* but it runs the event loop, so due after() timers fire under it.         *)
(* requests.get blocks without running the event loop, and                  *)
(* update_idletasks() runs no timer.                                        *)

Top == stack[Len(stack)]
Pop == SubSeq(stack, 1, Len(stack) - 1)

EventLoopRuns_during_get(pc) == pc \in {"dialog", "fetching"}

\* the positions of a handler at which the event loop runs
EventLoopRuns(pc) == pc = "dialog"

TimersServiced == IF stack = <<>> THEN TRUE ELSE EventLoopRuns(Top.pc)
UserInputAllowed == stack = <<>>

Status(kind, err) == [kind |-> kind, err |-> err]

NoPre == [current_rates |-> None, rates_tree |-> <<>>, update_time_label |-> None,
          export_btn |-> "disabled", history |-> <<>>]

Frame(op, pc, via, base, pre, err) ==
    [op |-> op, pc |-> pc, via |-> via, base |-> base, pre |-> pre, err |-> err,
     started |-> clock + 1]

\* lines 332-337 of refresh_rates, up to the call of get_exchange_rates
RefreshStart(via, base) ==
    /\ refresh_btn' = "disabled"
    /\ status_label' = Status("fetching", None)
    /\ clock' = clock + 1
    /\ stack' = Append(stack,
                   Frame("refresh", "fetching", via, base,
                         [current_rates |-> current_rates, rates_tree |-> rates_tree,
                          update_time_label |-> update_time_label,
                          export_btn |-> export_btn, history |-> history],
                         None))
    /\ UNCHANGED <<history, current_rates, export_btn, update_time_label, rates_tree,
                   convert_result_label, next_after, returned, conv_log, call, result>>

rates_after_fetch_unchecked(cur, r) == r[1]

\* self.current_rates after the "if error: ... return" of refresh_rates
rates_after_fetch(cur, r) == IF r[2] # None THEN cur ELSE r[1]

\* self.tracker.history after the same
history_after_fetch(h, r) == IF r[2] # None THEN h ELSE save_to_history(h, r[1][1])

after_cancel_missing(pending, job) == pending

\* root.after_cancel(job)
after_cancel(pending, job) == pending \ {job}

\* line 442 of schedule_refresh, reached when refresh_rates returned normally
Reschedule(via, returns) ==
    IF via = "schedule" /\ returns
    THEN /\ refresh_job' = Some(next_after)
         /\ timers' = timers \cup {next_after}
         /\ next_after' = next_after + 1
    ELSE UNCHANGED <<refresh_job, timers, next_after>>

----------------------------------------------------------------------------
(* Actions *)

\* the refresh button is clicked
ClickRefresh ==
    /\ UserInputAllowed
    /\ refresh_btn = "normal"
    /\ clock < MaxFetches
    /\ \E base \in Bases : RefreshStart("button", base)
    /\ UNCHANGED <<auto_refresh, auto_refresh_var, refresh_job, timers, startup_timer>>

\* the after(100, app.refresh_rates) of main() fires
StartupTimerFires ==
    /\ startup_timer
    /\ TimersServiced
    /\ clock < MaxFetches
    /\ startup_timer' = FALSE
    /\ \E base \in Bases : RefreshStart("startup", base)
    /\ UNCHANGED <<auto_refresh, auto_refresh_var, refresh_job, timers>>

\* the checkbutton is clicked on: toggle_auto_refresh, schedule_refresh
ToggleAutoRefreshOn ==
    /\ UserInputAllowed
    /\ ~auto_refresh_var
    /\ clock < MaxFetches
    /\ auto_refresh_var' = TRUE
    /\ auto_refresh' = TRUE
    /\ \E base \in Bases : RefreshStart("schedule", base)
    /\ UNCHANGED <<refresh_job, timers, startup_timer>>

\* the checkbutton is clicked off: toggle_auto_refresh
ToggleAutoRefreshOff ==
    /\ UserInputAllowed
    /\ auto_refresh_var
    /\ auto_refresh_var' = FALSE
    /\ auto_refresh' = FALSE
    /\ IF refresh_job # None
       THEN /\ timers' = after_cancel(timers, refresh_job[1])
            /\ refresh_job' = None
       ELSE UNCHANGED <<timers, refresh_job>>
    /\ UNCHANGED <<history, current_rates, refresh_btn, export_btn, status_label,
                   update_time_label, rates_tree, convert_result_label, startup_timer,
                   stack, clock, next_after, returned, conv_log, call, result>>

\* a pending after(60000, self.schedule_refresh) fires: schedule_refresh
TimerFires ==
    /\ TimersServiced
    /\ clock < MaxFetches
    /\ \E id \in timers :
         /\ timers' = timers \ {id}
         /\ IF auto_refresh
            THEN \E base \in Bases : RefreshStart("schedule", base)
            ELSE UNCHANGED <<history, current_rates, refresh_btn, export_btn, status_label,
                             update_time_label, rates_tree, convert_result_label, stack,
                             clock, next_after, returned, conv_log, call, result>>
    /\ UNCHANGED <<auto_refresh, auto_refresh_var, refresh_job, startup_timer>>

\* get_exchange_rates returns and refresh_rates runs on from line 339 to its
\* end, to the open error dialog, or to the exception of update_rates_display
FetchReturns ==
    /\ stack # <<>>
    /\ Top.pc = "fetching"
    /\ \E resp \in RefreshResponses(Top.base), json_exc \in JsonExcClasses :
         LET r == get_exchange_rates(Top.base, resp, clock, json_exc)
         IN  /\ current_rates' = rates_after_fetch(current_rates, r)
             /\ history' = history_after_fetch(history, r)
             /\ returned' = IF r[1] # None THEN Append(returned, r[1][1]) ELSE returned
             /\ IF r[2] # None
                THEN /\ status_label' = Status("error", r[2])
                     /\ stack' = [stack EXCEPT ![Len(stack)].pc = "dialog",
                                               ![Len(stack)].err = r[2]]
                     /\ UNCHANGED <<rates_tree, update_time_label, export_btn, refresh_btn,
                                    refresh_job, timers, next_after>>
                ELSE LET d == update_rates_display(r[1][1])
                     IN  /\ rates_tree' = d.rows
                         /\ stack' = Pop
                         /\ IF d.raised
                            THEN UNCHANGED <<status_label, update_time_label, export_btn,
                                             refresh_btn>>
                            ELSE /\ status_label' = Status("ok", None)
                                 /\ update_time_label' = Some(r[1][1].timestamp)
                                 /\ export_btn' = "normal"
                                 /\ refresh_btn' = "normal"
                         /\ Reschedule(Top.via, ~d.raised)
    /\ UNCHANGED <<auto_refresh, auto_refresh_var, convert_result_label, startup_timer,
                   clock, conv_log, call, result>>

\* the user closes the open messagebox; the handler that showed it runs on
DismissDialog ==
    /\ stack # <<>>
    /\ Top.pc = "dialog"
    /\ stack' = Pop
    /\ IF Top.op = "refresh"
       THEN /\ refresh_btn' = "normal"
            /\ Reschedule(Top.via, TRUE)
       ELSE UNCHANGED <<refresh_btn, refresh_job, timers, next_after>>
    /\ UNCHANGED <<history, current_rates, auto_refresh, auto_refresh_var, export_btn,
                   status_label, update_time_label, rates_tree, convert_result_label,
                   startup_timer, clock, returned, conv_log, call, result>>

convert_validation_amount_only(f, from_curr, to_curr) ==
    IF f.raised THEN "invalid_amount" ELSE "ok"

\* lines 404-411 of convert_currency: what stops the request before
\* get_conversion is called
convert_validation(f, from_curr, to_curr) ==
    IF f.raised THEN "invalid_amount"
    ELSE IF from_curr = to_curr THEN "same_currency"
    ELSE "ok"

ConvLog(text, from_curr, to_curr, called, amount) ==
    Some([text |-> text, from |-> from_curr, to |-> to_curr, called |-> called,
          amount |-> amount, before |-> convert_result_label])

ShowDialog(op) ==
    stack' = Append(stack, Frame(op, "dialog", "button", "", NoPre, None))

\* the convert button is clicked: convert_currency.  The GET of
\* get_conversion blocks the handler, so the handler runs in one step up to
\* its end or to the messagebox it shows.
ClickConvert ==
    /\ UserInputAllowed
    /\ \E text \in AmountTexts, from_curr \in Bases, to_curr \in Targets :
         LET f == float_(text)
         IN  IF convert_validation(f, from_curr, to_curr) # "ok"
             THEN /\ conv_log' = ConvLog(text, from_curr, to_curr, FALSE, f.val)
                  /\ ShowDialog("convert")
                  /\ UNCHANGED convert_result_label
             ELSE \E resp \in ConversionResponses(from_curr, to_curr),
                     json_exc \in JsonExcClasses :
                    LET r == get_conversion(f.val, from_curr, to_curr, resp, json_exc)
                    IN  /\ conv_log' = ConvLog(text, from_curr, to_curr, TRUE, f.val)
                        /\ CASE r[2] # None ->
                                  \* messagebox.showerror("Error", error)
                                  ShowDialog("convert") /\ UNCHANGED convert_result_label
                             [] r[2] = None /\ r[1] = None ->
                                  \* formatting None raises TypeError, which leaves the handler
                                  UNCHANGED <<stack, convert_result_label>>
                             [] r[2] = None /\ r[1] # None /\ r[1][1].t = "str" ->
                                  \* formatting a str raises ValueError: "valid amount" dialog
                                  ShowDialog("convert") /\ UNCHANGED convert_result_label
                             [] OTHER ->
                                  /\ convert_result_label' =
                                        Some([amount |-> Fmt2(f.val.v), from |-> from_curr,
                                              result |-> Fmt2(r[1][1].v), to |-> to_curr])
                                  /\ UNCHANGED stack
    /\ UNCHANGED <<history, current_rates, auto_refresh, auto_refresh_var, refresh_job,
                   refresh_btn, export_btn, status_label, update_time_label, rates_tree,
                   timers, startup_timer, clock, next_after, returned, call, result>>

\* the export button is clicked: export_to_excel writes the file (or fails
\* to) and reports the outcome in a messagebox
ClickExport ==
    /\ UserInputAllowed
    /\ export_btn = "normal"
    /\ ShowDialog("export")
    /\ UNCHANGED <<history, current_rates, auto_refresh, auto_refresh_var, refresh_job,
                   refresh_btn, export_btn, status_label, update_time_label, rates_tree,
                   convert_result_label, timers, startup_timer, clock, next_after,
                   returned, conv_log, call, result>>

----------------------------------------------------------------------------
(* The application *)

NoCall == [op |-> "none", base |-> "", amount |-> NullV, from |-> "", to |-> "",
           resp |-> Failure("none"), json_exc |-> "", now |-> 0]

GuiInit ==
    /\ history = <<>>
    /\ current_rates = None
    /\ auto_refresh = FALSE
    /\ auto_refresh_var = FALSE
    /\ refresh_job = None
    /\ refresh_btn = "normal"
    /\ export_btn = "disabled"
    /\ status_label = Status("ready", None)
    /\ update_time_label = None
    /\ rates_tree = <<>>
    /\ convert_result_label = None
    /\ timers = {}
    /\ stack = <<>>
    /\ clock = 0
    /\ next_after = 1
    /\ returned = <<>>
    /\ conv_log = None

\* main(): the answer to "fetch current exchange rates now?" decides whether
\* the startup refresh is scheduled
Init ==
    /\ GuiInit
    /\ startup_timer \in BOOLEAN
    /\ call = NoCall
    /\ result = None

Next ==
    \/ ClickRefresh
    \/ StartupTimerFires
    \/ ToggleAutoRefreshOn
    \/ ToggleAutoRefreshOff
    \/ TimerFires
    \/ FetchReturns
    \/ DismissDialog
    \/ ClickExport

Spec == Init /\ [][Next]_vars

----------------------------------------------------------------------------
(* The client on its own: one call of get_exchange_rates or get_conversion  *)
(* on every base, amount, currency pair and provider answer.                *)

ClientCalls ==
    { [NoCall EXCEPT !.op = "get_exchange_rates", !.base = b, !.resp = resp,
                     !.json_exc = j, !.now = 1] :
          b \in Bases, resp \in UNION {RatesResponses(bb) : bb \in Bases},
          j \in JsonExcClasses }
    \cup
    { [NoCall EXCEPT !.op = "get_conversion", !.amount = NumV(a), !.from = f, !.to = t,
                     !.resp = resp, !.json_exc = j] :
          a \in {0, 125000, 1000000}, f \in Bases, t \in Targets,
          resp \in UNION {ConversionResponses(ff, tt) : ff \in Bases, tt \in Targets},
          j \in JsonExcClasses }

ClientInit ==
    /\ GuiInit
    /\ startup_timer = FALSE
    /\ call \in ClientCalls
    /\ result = None

CallGetExchangeRates ==
    /\ result = None
    /\ call.op = "get_exchange_rates"
    /\ result' = Some(get_exchange_rates(call.base, call.resp, call.now, call.json_exc))
    /\ UNCHANGED <<guiVars, call>>

CallGetConversion ==
    /\ result = None
    /\ call.op = "get_conversion"
    /\ result' = Some(get_conversion(call.amount, call.from, call.to, call.resp,
                                     call.json_exc))
    /\ UNCHANGED <<guiVars, call>>

ClientNext == CallGetExchangeRates \/ CallGetConversion

ClientSpec == ClientInit /\ [][ClientNext]_vars

----------------------------------------------------------------------------
(* The converter on its own.  convert_currency and the refresh handlers     *)
(* share no variable but the stack of open dialogs, so the converter is     *)
(* explored apart from the refresh handlers.                                *)

ConvertNext == ClickConvert \/ DismissDialog

ConvertSpec == Init /\ [][ConvertNext]_vars

----------------------------------------------------------------------------
(* Properties *)

Fetching == {i \in 1..Len(stack) : stack[i].pc = "fetching"}
Refreshing == {i \in 1..Len(stack) : stack[i].op = "refresh"}

\* a step in which the refresh_rates activation on top of the stack returns
\* from its error dialog
RefreshEndsWithError ==
    /\ stack # <<>>
    /\ Top.op = "refresh"
    /\ Top.pc = "dialog"
    /\ stack' = Pop

\* a step in which a refresh_rates activation called by schedule_refresh ends
ScheduledRunEnds ==
    /\ stack # <<>>
    /\ Top.op = "refresh"
    /\ Top.via = "schedule"
    /\ stack' = Pop

DataOf(c, t, u, e, h) ==
    [current_rates |-> c, rates_tree |-> t, update_time_label |-> u, export_btn |-> e,
     history |-> h]

\* C1: the history is exactly the sequence of the snapshots that
\* get_exchange_rates returned to refresh_rates, in call order: a successful
\* refresh appends its snapshot at the end, a failing one changes nothing, and
\* no entry is removed, replaced or reordered.
C1_HistoryIsReturnedSnapshots ==
    /\ history = returned
    /\ Len(history) <= clock
    /\ \A i \in 1..Len(history) : \A j \in 1..Len(history) :
          i < j => history[i].timestamp < history[j].timestamp

C1_Witness ==
    /\ Len(history) = 2
    /\ clock = 3
    /\ stack = <<>>
    /\ history[1] # history[2]

\* C2: get_exchange_rates returns an error, or a snapshot whose rates are a
\* mapping of positive numbers.
C2_PositiveRatesOrError ==
    (result # None /\ call.op = "get_exchange_rates") =>
        LET r == result[1]
        IN  \/ r[1] = None /\ r[2] # None
            \/ /\ r[1] # None
               /\ r[2] = None
               /\ r[1][1].rates.t = "map"
               /\ \A c \in DOMAIN r[1][1].rates.m :
                     r[1][1].rates.m[c].t = "num" /\ r[1][1].rates.m[c].v > 0

\* C3: get_exchange_rates answers every transport failure with a
\* "Network error" carrying the message, and every 2xx body that is not JSON
\* or lacks base, date or rates with the generic (parse) "Error", never with
\* a "Network error".
C3_Classification ==
    (result # None /\ call.op = "get_exchange_rates") =>
        LET r == result[1]
            b == call.resp.body
        IN  /\ call.resp.kind \in {"dns", "refused", "timeout", "http_error"} =>
                  r[1] = None /\ r[2] # None /\ r[2][1].prefix = "Network error: "
                              /\ r[2][1].msg # ""
            /\ (call.resp.kind = "ok"
                  /\ (b.t # "obj" \/ ~({"base", "date", "rates"} \subseteq b.has))) =>
                  r[1] = None /\ r[2] # None /\ r[2][1].prefix = "Error: "

\* C4: get_conversion returns either the value stored under the key to in the
\* rates mapping of the response, with no error, or no value and a
\* "Conversion error", whatever went wrong.
C4_ConversionResult ==
    (result # None /\ call.op = "get_conversion") =>
        LET r == result[1]
            b == call.resp.body
            found == /\ call.resp.kind = "ok"
                     /\ b.t = "obj"
                     /\ "rates" \in b.has
                     /\ b.rates.t = "map"
                     /\ call.to \in DOMAIN b.rates.m
        IN  IF found
            THEN /\ r[2] = None
                 /\ r[1] = IF b.rates.m[call.to].t = "null" THEN None
                           ELSE Some(b.rates.m[call.to])
            ELSE /\ r[1] = None
                 /\ r[2] # None
                 /\ r[2][1].prefix = "Conversion error: "

C4_Witness ==
    /\ result # None
    /\ call.op = "get_conversion"
    /\ call.resp.kind = "ok"
    /\ result[1][1] = Some(NumV(920000))

C6_FailedRefreshKeepsData ==
    [][RefreshEndsWithError =>
          /\ DataOf(current_rates', rates_tree', update_time_label', export_btn',
                    history') = Top.pre
          /\ status_label' = Status("error", Top.err)]_vars

\* C6 as amended: the same, for a failing refresh under whose error dialog no
\* other refresh ran.
C6_FailedRefreshKeepsDataUnlessNested ==
    [][(RefreshEndsWithError /\ clock = Top.started) =>
          /\ DataOf(current_rates', rates_tree', update_time_label', export_btn',
                    history') = Top.pre
          /\ status_label' = Status("error", Top.err)]_vars

C6_Witness ==
    /\ stack = <<>>
    /\ status_label.kind = "error"
    /\ current_rates # None
    /\ rates_tree # <<>>
    /\ refresh_btn = "normal"

\* C7: while auto-refresh is off no schedule_refresh timer is pending, and
\* never more than one is pending.
C7_NoTimerWhenOff ==
    /\ ~auto_refresh => timers = {}
    /\ Cardinality(timers) <= 1

C7_Witness ==
    /\ ~auto_refresh
    /\ refresh_job = None
    /\ next_after > 1
    /\ stack = <<>>

\* C8: every run of schedule_refresh made while auto-refresh is on ends with
\* a new refresh timer pending.
C8_RunReschedules ==
    [][(ScheduledRunEnds /\ auto_refresh) =>
          /\ refresh_job' # None
          /\ refresh_job' # refresh_job
          /\ timers' # {}]_vars

\* C9: at most one get_exchange_rates call is in flight.
C9_OneFetchInFlight == Cardinality(Fetching) <= 1

C9_Witness ==
    /\ Len(stack) >= 2
    /\ stack[1].op = "refresh"
    /\ stack[1].pc = "dialog"
    /\ Top.pc = "fetching"

\* C10: whenever no refresh_rates activation is running the refresh button is
\* enabled.
C10_ButtonReenabled == Refreshing = {} => refresh_btn = "normal"

====
